---------------------------- MODULE Spec2Model ----------------------------
(***************************************************************************)
(* A model of pymc/utilities.py: make_indices, calc_min_interval, hpd,     *)
(* batchsd and calc_quantiles.                                             *)
(*                                                                         *)
(* An n-dimensional numpy array is a record [shape, at]: shape is the      *)
(* tuple of axis extents and at maps every 0-based index tuple to the      *)
(* element stored there.  Reals are kept exact: alpha is the rational      *)
(* num/AlphaDen, a quantile q is kept in thousandths, and a standard       *)
(* error is kept as the rational [num, den] of its square.                 *)
(* Objects live in a heap (name -> array) so that a copy, a view and an    *)
(* in-place update are different things; the caller's array is the object  *)
(* named "caller".                                                         *)
(***************************************************************************)
EXTENDS Integers, Sequences, FiniteSets, TLC

VARIABLES pc, arg, arg0, call, ret, loc

vars == <<pc, arg, arg0, call, ret, loc>>

(* ------------------------------ bounds --------------------------------- *)
\* the samples of a rank-1 array take the values 0..MaxVal
MaxVal == 1
\* a rank-1 array holds at most MaxLen samples
MaxLen == 5
\* calc_min_interval alone is given up to MaxSortedLen samples in 0..MaxSortedVal
MaxSortedLen == 6
MaxSortedVal == 3
\* an array of rank 2 or 3 holds at most MaxCells elements, each in 0..MaxCellVal
MaxCells == 4
MaxCellVal == 1
\* alpha ranges over the multiples of 1/AlphaDen
AlphaDen == 4
\* batches ranges over -1..MaxBatches
MaxBatches == 4
\* make_indices is given 1..MaxRank axis extents, each in 1..MaxExtent
MaxExtent == 3
MaxRank == 4

(* --------------------------- generic helpers --------------------------- *)
Range(s) == {s[i] : i \in DOMAIN s}

Max(a, b) == IF a >= b THEN a ELSE b

Min(a, b) == IF a <= b THEN a ELSE b

RECURSIVE Prod(_)
Prod(s) == IF Len(s) = 0 THEN 1 ELSE Head(s) * Prod(Tail(s))

RECURSIVE SumSeq(_)
SumSeq(s) == IF Len(s) = 0 THEN 0 ELSE Head(s) + SumSeq(Tail(s))

Front(s) == SubSeq(s, 1, Len(s) - 1)

\* every 0-based index tuple of an array of the given shape
RECURSIVE Indices(_)
Indices(shape) ==
    IF Len(shape) = 0 THEN {<<>>}
    ELSE {t \o <<j>> : t \in Indices(Front(shape)), j \in 0..(shape[Len(shape)] - 1)}

\* a function given by a rule, tabulated once instead of at every application
Table(f) == f @@ <<>>

(* ------------------------------ outcomes ------------------------------- *)
Returned(v) == [kind |-> "returned", value |-> v, exc |-> "none"]

Raised(e) == [kind |-> "raised", value |-> <<>>, exc |-> e]

NoRet == [kind |-> "none", value |-> <<>>, exc |-> "none"]

(* --------------------------- numpy primitives -------------------------- *)
\* a rank-1 array as the sequence of its elements, and back
ToSeq(a) == Table([i \in 1..a.shape[1] |-> a.at[<<i - 1>>]])

FromSeq(s) == [shape |-> <<Len(s)>>, at |-> Table([t \in Indices(<<Len(s)>>) |-> s[t[1] + 1]])]

ndim(a) == Len(a.shape)

\* np.sort on a sequence: ascending, duplicates kept
SortedSeq(s) ==
    Table([j \in 1..Len(s) |->
            CHOOSE v \in Range(s) :
                /\ Cardinality({i \in 1..Len(s) : s[i] < v}) < j
                /\ j <= Cardinality({i \in 1..Len(s) : s[i] <= v})])

\* np.sort(a): a new array, sorted along the last axis
np_sort(a) ==
    LET k == ndim(a)
        line(u) == [j \in 1..a.shape[k] |-> a.at[u \o <<j - 1>>]]
        sorted == Table([u \in Indices(Front(a.shape)) |-> SortedSeq(line(u))])
    IN  [shape |-> a.shape,
         at |-> Table([t \in Indices(a.shape) |-> sorted[Front(t)][t[k] + 1]])]

\* np.transpose(a, axes): axis i of the result is axis axes[i] of a (0-based axes)
np_transpose(a, axes) ==
    LET k == ndim(a)
        shape == [i \in 1..k |-> a.shape[axes[i] + 1]]
        back(t) == [j \in 1..k |-> t[CHOOSE i \in 1..k : axes[i] + 1 = j]]
    IN  [shape |-> shape, at |-> Table([t \in Indices(shape) |-> a.at[back(t)]])]

\* a[index] for a tuple of in-range indices shorter than or as long as the rank
GetItem(a, index) ==
    LET rest == SubSeq(a.shape, Len(index) + 1, ndim(a))
    IN  [shape |-> rest, at |-> Table([t \in Indices(rest) |-> a.at[index \o t]])]

\* Python's s[start:stop] on a sequence, negative positions counted from the end
Clamp(i, n) == IF i < 0 THEN Max(i + n, 0) ELSE Min(i, n)

PySlice(s, start, stop) == SubSeq(s, Clamp(start, Len(s)) + 1, Clamp(stop, Len(s)))


\* np.resize(0.0, shape): a new array of that shape filled with zero
np_zeros(shape) == [shape |-> shape, at |-> Table([t \in Indices(shape) |-> 0])]

\* a[index] = pair, for a tuple index that leaves the last axis free
SetItem(a, index, pair) ==
    [a EXCEPT !.at = Table([t \in Indices(a.shape) |->
                              IF Front(t) = index THEN pair[t[Len(t)] + 1] ELSE a.at[t]])]

\* binding a name to a new object leaves every other object as it is
Alloc(h, name, value) == (name :> value) @@ h

(* ----------------------------- make_indices ---------------------------- *)
PyInt(j) == [tag |-> "int", v |-> j]

PyTuple(t) == [tag |-> "tuple", v |-> t]

\* [[j]+i for i in indices]
PrependEach(j, indices) == Table([n \in 1..Len(indices) |-> <<j>> \o indices[n]])

\* the extent the while loop walks at a level: dimensions[level-1], 0-based
LevelExtentFromFront(dimensions, level) == dimensions[Len(dimensions) - level + 1]

LevelExtent(dimensions, level) == dimensions[level]

\* for j in range(d): _indices += [[j]+i for i in indices]
RECURSIVE ForJ(_, _, _, _)
ForJ(j, d, indices, _indices) ==
    IF j >= d THEN _indices
    ELSE ForJ(j + 1, d, indices, _indices \o PrependEach(j, indices))

\* while level: ...; level -= 1
RECURSIVE WhileLevel(_, _, _)
WhileLevel(dimensions, level, indices) ==
    IF level = 0 THEN indices
    ELSE WhileLevel(dimensions, level - 1,
                    ForJ(0, LevelExtent(dimensions, level), indices, <<>>))

make_indices(dimensions) ==
    IF Len(dimensions) = 1
    THEN [n \in 1..dimensions[1] |-> PyInt(n - 1)]
    ELSE LET indices == WhileLevel(dimensions, Len(dimensions), << <<>> >>)
         IN  [n \in 1..Len(indices) |-> PyTuple(indices[n])]

(* --------------------------- calc_min_interval ------------------------- *)
\* int(np.floor(cred_mass*n)) with cred_mass = 1 - a/AlphaDen
interval_idx_inc_ceil(n, a) == -((-((AlphaDen - a) * n)) \div AlphaDen)

interval_idx_inc(n, a) == ((AlphaDen - a) * n) \div AlphaDen

\* x[interval_idx_inc:] - x[:n_intervals], with numpy's broadcasting of 1-D operands
Broadcastable(u, v) == Len(u) = Len(v) \/ Len(u) = 1 \/ Len(v) = 1

Subtract(u, v) ==
    LET len == IF Len(u) = Len(v) THEN Len(u) ELSE IF Len(u) = 1 THEN Len(v) ELSE Len(u)
    IN  Table([i \in 1..len |->
                 u[IF Len(u) = 1 THEN 1 ELSE i] - v[IF Len(v) = 1 THEN 1 ELSE i]])

\* np.argmin: a left-to-right scan that keeps the first minimum; 1-based position
BetterOrEqual(candidate, best) == candidate <= best

Better(candidate, best) == candidate < best

RECURSIVE ArgMinScan(_, _, _)
ArgMinScan(w, i, best) ==
    IF i > Len(w) THEN best
    ELSE ArgMinScan(w, i + 1, IF Better(w[i], w[best]) THEN i ELSE best)

np_argmin(w) == ArgMinScan(w, 2, 1) - 1

\* x[i] on a sequence, a negative i counted from the end
InRange(x, i) == -Len(x) <= i /\ i < Len(x)

PyIndex(x, i) == x[(IF i < 0 THEN i + Len(x) ELSE i) + 1]

NoLocals == [interval_idx_inc |-> 0, n_intervals |-> 0, min_idx |-> 0,
             batched_traces |-> <<>>, indices |-> <<>>]

\* x is the sequence of a rank-1 array, a the numerator of alpha
calc_min_interval(x, a) ==
    LET n == Len(x)
        inc == interval_idx_inc(n, a)
        n_intervals == n - inc
        upper == PySlice(x, inc, n)
        lower == PySlice(x, 0, n_intervals)
        interval_width == Subtract(upper, lower)
        min_idx == np_argmin(interval_width)
        locals == [NoLocals EXCEPT !.interval_idx_inc = inc, !.n_intervals = n_intervals]
    IN  IF ~Broadcastable(upper, lower)
        THEN [ret |-> Raised("ValueError"), loc |-> locals]
        ELSE IF Len(interval_width) = 0
        THEN [ret |-> Raised("ValueError"), loc |-> locals]
        ELSE IF ~InRange(x, min_idx) \/ ~InRange(x, min_idx + inc)
        THEN [ret |-> Raised("IndexError"), loc |-> [locals EXCEPT !.min_idx = min_idx]]
        ELSE [ret |-> Returned(<<PyIndex(x, min_idx), PyIndex(x, min_idx + inc)>>),
              loc |-> [locals EXCEPT !.min_idx = min_idx]]

(* --------------------------------- hpd --------------------------------- *)
\* range(x.ndim)[1:]+[0]
SampleAxisAlreadyLast(k) == [i \in 1..k |-> i - 1]

SampleAxisLast(k) == [i \in 1..k |-> IF i < k THEN i ELSE 0]

\* tuple(index) raises TypeError on an int, which then indexes as it is
AsIndex(index) == IF index.tag = "int" THEN <<index.v>> ELSE index.v

\* the loop body at one index: a raise leaves the loop with intervals as they are
HpdStepSwallow(st, tx, index, a) ==
    LET r == calc_min_interval(ToSeq(np_sort(GetItem(tx, AsIndex(index)))), a)
    IN  IF r.ret.kind = "raised" THEN st
        ELSE [st EXCEPT !.intervals = SetItem(st.intervals, AsIndex(index), r.ret.value)]

HpdStep(st, tx, index, a) ==
    LET r == calc_min_interval(ToSeq(np_sort(GetItem(tx, AsIndex(index)))), a)
    IN  IF r.ret.kind = "raised" THEN [st EXCEPT !.ret = r.ret]
        ELSE [st EXCEPT !.intervals = SetItem(st.intervals, AsIndex(index), r.ret.value)]

RECURSIVE HpdLoop(_, _, _, _, _)
HpdLoop(st, tx, indices, i, a) ==
    IF i > Len(indices) \/ st.ret.kind = "raised" THEN st
    ELSE HpdLoop(HpdStep(st, tx, indices[i], a), tx, indices, i + 1, a)

\* h is the heap at the call, h["caller"] the array passed as x
hpd(h, a) ==
    LET h1 == Alloc(h, "x", h["caller"])
        x == h1["x"]
    IN  IF ndim(x) > 1
        THEN LET tx == np_transpose(x, SampleAxisLast(ndim(x)))
                 dims == tx.shape
                 indices == make_indices(Front(dims))
                 st == HpdLoop([ret |-> NoRet, intervals |-> np_zeros(Front(dims) \o <<2>>)],
                               tx, indices, 1, a)
                 h2 == Alloc(h1, "intervals", st.intervals)
             IN  [ret |-> IF st.ret.kind = "raised" THEN st.ret ELSE Returned(st.intervals),
                  heap |-> h2,
                  loc |-> [NoLocals EXCEPT !.indices = indices]]
        ELSE LET sx == np_sort(x)
                 r == calc_min_interval(ToSeq(sx), a)
             IN  [ret |-> IF r.ret.kind = "raised" THEN r.ret
                          ELSE Returned(FromSeq(r.ret.value)),
                  heap |-> Alloc(h1, "sx", sx),
                  loc |-> r.loc]


(* ------------------------------- batchsd ------------------------------- *)
\* Python 2's a/b and a%b on ints: floor division and the remainder of it
PyFloorDiv(a, b) == IF b > 0 THEN a \div b ELSE (-a) \div (-b)

PyMod(a, b) == a - b * PyFloorDiv(a, b)

\* position of index tuple t in the row-major (C order) flattening of shape
RECURSIVE FlatIndex(_, _)
FlatIndex(t, shape) ==
    IF Len(t) = 0 THEN 0
    ELSE FlatIndex(Front(t), Front(shape)) * shape[Len(shape)] + t[Len(t)]

\* a standard error is kept as the square it is the root of, or as nan
NaN == [nan |-> TRUE, num |-> 0, den |-> 1]

Root(num, den) == [nan |-> FALSE, num |-> num, den |-> den]

SumSq(s) == SumSeq([i \in 1..Len(s) |-> s[i] * s[i]])

\* np.std(v)/np.sqrt(len(v)) for v = s/scale elementwise; nan on no elements
StdErr(s, scale) ==
    LET n == Len(s)
    IN  IF n = 0 \/ scale = 0 THEN NaN
        ELSE Root(n * SumSq(s) - SumSeq(s) * SumSeq(s), n * n * n * scale * scale)

\* np.resize(a, new_shape) on the elements a of a rank-1 array: a new array filled
\* with a repeated from its start.  A request for no element at all gives, by the
\* numpy release, either a[:0] (zero_size = "flat") or zeros of new_shape ("zeros").
np_resize(a, new_shape, zero_size) ==
    IF \E i \in 1..Len(new_shape) : new_shape[i] < 0 THEN Raised("ValueError")
    ELSE IF Len(a) = 0 THEN Returned(np_zeros(new_shape))
    ELSE IF Prod(new_shape) = 0
    THEN Returned(IF zero_size = "flat" THEN FromSeq(<<>>) ELSE np_zeros(new_shape))
    ELSE Returned([shape |-> new_shape,
                   at |-> Table([t \in Indices(new_shape) |->
                                  a[(FlatIndex(t, new_shape) % Len(a)) + 1]])])

\* batched_traces = np.resize(...) binds a new object; an in-place trace.resize(...)
\* would change the object named src as well
BindResizedInPlace(h, src, value) == Alloc(Alloc(h, "batched_traces", value), src, value)

BindResized(h, src, value) == Alloc(h, "batched_traces", value)

\* len(trace)/batches, Python 2 division of ints
BatchLenRoundedUp(n, batches) == -PyFloorDiv(-n, batches)

BatchLen(n, batches) == PyFloorDiv(n, batches)

\* np.mean(batched_traces, 1) as the row sums, to be divided by the row length
RowSums(b) ==
    Table([i \in 1..b.shape[1] |->
             SumSeq([j \in 1..b.shape[2] |-> b.at[<<i - 1, j - 1>>]])])

\* the rank-1 branch; src names the object bound to trace
batchsd1(h, src, batches, zero_size) ==
    LET trace == ToSeq(h[src])
        n == Len(trace)
        first == np_resize(trace, <<batches, BatchLen(n, batches)>>, zero_size)
        resid == PyMod(n, batches)
        second == np_resize(PySlice(trace, 0, -resid), <<batches, BatchLen(n, batches)>>,
                            zero_size)
        resized == IF first.kind = "raised" THEN second ELSE first
        h1 == BindResized(h, src, resized.value)
        batched_traces == h1["batched_traces"]
        locals == [NoLocals EXCEPT !.batched_traces = batched_traces]
    IN  IF batches = 1 THEN [ret |-> Returned(StdErr(trace, 1)), heap |-> h, loc |-> NoLocals]
        ELSE IF batches = 0 THEN [ret |-> Raised("ZeroDivisionError"), heap |-> h, loc |-> NoLocals]
        ELSE IF resized.kind = "raised" THEN [ret |-> resized, heap |-> h, loc |-> NoLocals]
        ELSE IF ndim(batched_traces) < 2
        THEN [ret |-> Raised("ValueError"), heap |-> h1, loc |-> locals]
        ELSE [ret |-> Returned(StdErr(RowSums(batched_traces), batched_traces.shape[2])),
              heap |-> h1, loc |-> locals]

\* np.transpose([t.ravel() for t in trace]): row p holds the samples of the variable
\* at position p of the row-major flattening of the leading shape
Ttrace(trace) ==
    LET rest == Tail(trace.shape)
        cell(p) == CHOOSE u \in Indices(rest) : FlatIndex(u, rest) = p
    IN  Table([p \in 1..(IF trace.shape[1] = 0 THEN 0 ELSE Prod(rest)) |->
                 Table([s \in 1..trace.shape[1] |-> trace.at[<<s - 1>> \o cell(p - 1)]])])

\* [batchsd(t, batches) for t in ttrace]: the first raise ends the comprehension
RECURSIVE BatchRows(_, _, _, _, _, _)
BatchRows(h, rows, p, batches, zero_size, acc) ==
    IF p > Len(rows) THEN [ret |-> Returned(acc), heap |-> h]
    ELSE LET r == batchsd1(Alloc(h, "t", FromSeq(rows[p])), "t", batches, zero_size)
         IN  IF r.ret.kind = "raised" THEN [ret |-> r.ret, heap |-> r.heap]
             ELSE BatchRows(r.heap, rows, p + 1, batches, zero_size, Append(acc, r.ret.value))

\* h["caller"] is the array passed as trace
batchsd(h, batches, zero_size) ==
    LET trace == h["caller"]
        dims == trace.shape
        rest == Tail(dims)
        rows == Ttrace(trace)
        r == BatchRows(Alloc(h, "ttrace", rows), rows, 1, batches, zero_size, <<>>)
        sds == r.ret.value
    IN  IF ndim(trace) > 1
        THEN IF r.ret.kind = "raised" THEN [ret |-> r.ret, heap |-> r.heap, loc |-> NoLocals]
             ELSE IF Len(sds) # Prod(rest)
             THEN [ret |-> Raised("ValueError"), heap |-> r.heap, loc |-> NoLocals]
             ELSE [ret |-> Returned([shape |-> rest,
                                     at |-> Table([u \in Indices(rest) |->
                                                    sds[FlatIndex(u, rest) + 1]])]),
                   heap |-> r.heap, loc |-> NoLocals]
        ELSE batchsd1(h, "caller", batches, zero_size)

(* ---------------------------- calc_quantiles --------------------------- *)
\* a quantile q is kept in thousandths: 25 is 2.5 percent
DefaultQlist == <<25, 250, 500, 750, 975>>

\* int(len(sx)*q/100.0) for q >= 0
QuantileIndexRounded(n, q) == (n * q + 500) \div 1000

QuantileIndex(n, q) == (n * q) \div 1000

\* x.T: the axes reversed
Reversed(k) == [i \in 1..k |-> k - i]

\* what the except clause leaves: a message printed, and the implicit return of None
PrintedNone == [kind |-> "returned_none", value |-> <<>>, exc |-> "none"]

\* dict(zip(qlist, quants)); for a repeated key the later pair stays
DictZip(qlist, quants) ==
    [q \in Range(qlist) |->
        quants[CHOOSE i \in 1..Len(qlist) :
                 qlist[i] = q /\ \A j \in (i + 1)..Len(qlist) : qlist[j] # q]]

\* h["caller"] is the array passed as x
calc_quantiles(h, qlist) ==
    LET h1 == Alloc(h, "x", h["caller"])
        x == h1["x"]
        k == ndim(x)
        sx == IF k > 1 THEN np_transpose(np_sort(np_transpose(x, Reversed(k))), Reversed(k))
              ELSE np_sort(x)
        n == sx.shape[1]
        at(q) == IF k > 1 THEN GetItem(sx, <<QuantileIndex(n, q)>>)
                 ELSE sx.at[<<QuantileIndex(n, q)>>]
        h2 == Alloc(h1, "sx", sx)
    IN  IF \E i \in 1..Len(qlist) : QuantileIndex(n, qlist[i]) >= n
        THEN [ret |-> PrintedNone, heap |-> h2, loc |-> NoLocals]
        ELSE [ret |-> Returned(DictZip(qlist, [i \in 1..Len(qlist) |-> at(qlist[i])])),
              heap |-> h2, loc |-> NoLocals]


(* ------------------------------- inputs -------------------------------- *)
ArraysOf(shape, values) == {[shape |-> shape, at |-> g] : g \in [Indices(shape) -> values]}

\* rank 1: any number of samples up to MaxLen
Shapes1 == {<<n>> : n \in 0..MaxLen}

\* rank 2 and more: the sample axis comes first and may be empty, the other axes not
ShapesN ==
    UNION {{s \in [1..k -> 0..MaxCells] :
               /\ \A i \in 2..k : s[i] >= 1
               /\ Prod(s) <= MaxCells
               /\ Prod(Tail(s)) <= MaxCells} : k \in {2, 3}}

Arrays1 == UNION {ArraysOf(s, 0..MaxVal) : s \in Shapes1}

ArraysN == UNION {ArraysOf(s, 0..MaxCellVal) : s \in ShapesN}

Arrays == Arrays1 \cup ArraysN

IsSorted(x) == \A i \in 1..(Len(x) - 1) : x[i] <= x[i + 1]

\* the ascending sequences of n samples in 0..MaxSortedVal
RECURSIVE Ascending(_)
Ascending(n) ==
    IF n = 0 THEN {<<>>}
    ELSE {Append(p[1], p[2]) :
            p \in {q \in Ascending(n - 1) \X (0..MaxSortedVal) :
                     n = 1 \/ q[1][n - 1] <= q[2]}}

SortedArrays == {FromSeq(s) : s \in UNION {Ascending(n) : n \in 0..MaxSortedLen}}

\* numerators of alpha: from below 0 to above 1
Alphas == (-1)..(AlphaDen + 1)

BatchCounts == (-1)..MaxBatches

ZeroSizes == {"flat", "zeros"}

\* the default list, and every list of at most two of 50 and 100 percent
Quantiles == {500, 1000}

Qlists == {DefaultQlist} \cup UNION {[1..k -> Quantiles] : k \in {0, 1, 2}}

DimTuples == UNION {[1..k -> 1..MaxExtent] : k \in 1..MaxRank}

NoCall == [fn |-> "none", alpha |-> 0, batches |-> 0, zero_size |-> "none",
           qlist |-> <<>>, dimensions |-> <<>>]

Heap(x) == "caller" :> x

(* ------------------------------- actions ------------------------------- *)
Hpd ==
    /\ pc = "ready"
    /\ \E a \in Alphas :
         LET r == hpd(Heap(arg), a)
         IN  /\ call' = [NoCall EXCEPT !.fn = "hpd", !.alpha = a]
             /\ ret' = r.ret
             /\ loc' = r.loc
             /\ arg' = r.heap["caller"]
    /\ pc' = "done"
    /\ UNCHANGED arg0

Batchsd ==
    /\ pc = "ready"
    /\ \E batches \in BatchCounts, z \in ZeroSizes :
         LET r == batchsd(Heap(arg), batches, z)
         IN  /\ call' = [NoCall EXCEPT !.fn = "batchsd", !.batches = batches, !.zero_size = z]
             /\ ret' = r.ret
             /\ loc' = r.loc
             /\ arg' = r.heap["caller"]
    /\ pc' = "done"
    /\ UNCHANGED arg0

CalcQuantiles ==
    /\ pc = "ready"
    /\ \E qlist \in Qlists :
         LET r == calc_quantiles(Heap(arg), qlist)
         IN  /\ call' = [NoCall EXCEPT !.fn = "calc_quantiles", !.qlist = qlist]
             /\ ret' = r.ret
             /\ loc' = r.loc
             /\ arg' = r.heap["caller"]
    /\ pc' = "done"
    /\ UNCHANGED arg0

\* calc_min_interval reads x and binds locals only; x is sorted, as its docstring asks
CalcMinInterval ==
    /\ pc = "ready"
    /\ ndim(arg) = 1
    /\ IsSorted(ToSeq(arg))
    /\ \E a \in Alphas :
         LET r == calc_min_interval(ToSeq(arg), a)
         IN  /\ call' = [NoCall EXCEPT !.fn = "calc_min_interval", !.alpha = a]
             /\ ret' = r.ret
             /\ loc' = r.loc
    /\ pc' = "done"
    /\ UNCHANGED <<arg, arg0>>

\* make_indices builds lists from its argument and touches no array
MakeIndices ==
    /\ pc = "ready"
    /\ \E dimensions \in DimTuples :
         /\ call' = [NoCall EXCEPT !.fn = "make_indices", !.dimensions = dimensions]
         /\ ret' = Returned(make_indices(dimensions))
    /\ pc' = "done"
    /\ loc' = NoLocals
    /\ UNCHANGED <<arg, arg0>>

(* ---------------------------- specifications --------------------------- *)
InitOn(inputs) ==
    /\ pc = "ready"
    /\ arg \in inputs
    /\ arg0 = arg
    /\ call = NoCall
    /\ ret = NoRet
    /\ loc = NoLocals

\* the three entry points, each called once on any array
Init == InitOn(Arrays)

Next == Hpd \/ Batchsd \/ CalcQuantiles

Spec == Init /\ [][Next]_vars

\* hpd, and calc_min_interval where the array is one it may be given
NextHpd == Hpd \/ CalcMinInterval

SpecHpd == Init /\ [][NextHpd]_vars

\* batchsd alone
NextBatch == Batchsd

SpecBatch == Init /\ [][NextBatch]_vars

\* calc_quantiles alone
NextQuant == CalcQuantiles

SpecQuant == Init /\ [][NextQuant]_vars

\* calc_min_interval alone, on the sorted rank-1 arrays
InitInterval == InitOn(SortedArrays)

NextInterval == CalcMinInterval

SpecInterval == InitInterval /\ [][NextInterval]_vars

\* make_indices alone
InitIndices == InitOn({FromSeq(<<>>)})

NextIndices == MakeIndices

SpecIndices == InitIndices /\ [][NextIndices]_vars


(* ------------------------------- claims -------------------------------- *)
Done(fn) == pc = "done" /\ call.fn = fn

AlphaInUnitInterval == 0 < call.alpha /\ call.alpha < AlphaDen

\* floor((1 - alpha) * n), for alpha = call.alpha/AlphaDen
FloorCredMass(n) == ((AlphaDen - call.alpha) * n) \div AlphaDen

\* width of the window that starts at 0-based position i of x and spans inc samples
WindowWidth(x, inc, i) == x[i + inc + 1] - x[i + 1]

\* the lowest starting position among the windows of least width
FirstNarrowest(x, inc) ==
    CHOOSE i \in 0..(Len(x) - inc - 1) :
        /\ \A j \in 0..(Len(x) - inc - 1) : WindowWidth(x, inc, i) <= WindowWidth(x, inc, j)
        /\ \A j \in 0..(i - 1) : WindowWidth(x, inc, j) > WindowWidth(x, inc, i)

\* C1: on a non-empty sorted array and alpha in (0,1), calc_min_interval returns
\* (x[m], x[m+inc]) with inc = floor((1-alpha)*n) and m the lowest start of a window
\* of least width x[i+inc] - x[i], i in [0, n-inc).
C1_FirstNarrowestWindow ==
    (Done("calc_min_interval") /\ Len(ToSeq(arg)) > 0 /\ AlphaInUnitInterval) =>
        LET x == ToSeq(arg)
            inc == FloorCredMass(Len(x))
            m == FirstNarrowest(x, inc)
        IN  ret = Returned(<<x[m + 1], x[m + inc + 1]>>)

\* a call where the least width is reached by two windows, the first of them not at 0
C1_Witness ==
    /\ Done("calc_min_interval") /\ AlphaInUnitInterval
    /\ ret.kind = "returned"
    /\ loc.min_idx >= 1
    /\ \E j \in (loc.min_idx + 1)..(loc.n_intervals - 1) :
         WindowWidth(ToSeq(arg), loc.interval_idx_inc, j)
           = WindowWidth(ToSeq(arg), loc.interval_idx_inc, loc.min_idx)

\* the samples of x that lie in the closed interval [lo, hi]
CountWithin(x, lo, hi) == Cardinality({i \in 1..Len(x) : lo <= x[i] /\ x[i] <= hi})

PairwiseDistinct(x) == \A i, j \in 1..Len(x) : i # j => x[i] # x[j]

\* C3 as stated: on a sorted array (duplicates allowed) and alpha in (0,1) the bounds
\* returned are samples of x, lo <= hi, and exactly interval_idx_inc + 1 samples lie
\* in [lo, hi].
C3_ExactlyIncPlusOneWithin ==
    (Done("calc_min_interval") /\ Len(ToSeq(arg)) > 0 /\ AlphaInUnitInterval) =>
        LET x == ToSeq(arg)
        IN  /\ ret.kind = "returned"
            /\ ret.value[1] \in Range(x) /\ ret.value[2] \in Range(x)
            /\ ret.value[1] <= ret.value[2]
            /\ CountWithin(x, ret.value[1], ret.value[2]) = FloorCredMass(Len(x)) + 1

\* C3 as amended: the bounds are samples of x, lo <= hi, at least interval_idx_inc + 1
\* samples lie in [lo, hi], and exactly that many when the samples are pairwise
\* distinct.
C3_AtLeastIncPlusOneWithin ==
    (Done("calc_min_interval") /\ Len(ToSeq(arg)) > 0 /\ AlphaInUnitInterval) =>
        LET x == ToSeq(arg)
            within == CountWithin(x, ret.value[1], ret.value[2])
        IN  /\ ret.kind = "returned"
            /\ ret.value[1] \in Range(x) /\ ret.value[2] \in Range(x)
            /\ ret.value[1] <= ret.value[2]
            /\ within >= FloorCredMass(Len(x)) + 1
            /\ PairwiseDistinct(x) => within = FloorCredMass(Len(x)) + 1

\* distinct samples, a window that spans some but not all of them and starts after x[0]
C3_Witness ==
    /\ Done("calc_min_interval") /\ AlphaInUnitInterval
    /\ ret.kind = "returned"
    /\ PairwiseDistinct(ToSeq(arg))
    /\ loc.interval_idx_inc >= 1
    /\ loc.min_idx >= 1
    /\ loc.n_intervals >= 2

\* C9: when n_intervals = n - floor((1-alpha)*n) <= 0 for the sample axis of length n,
\* calc_min_interval fails (the ValueError it raises) and hpd, rank 1 or not, fails
\* with it: no intervals array is returned.
C9_TooFewSamplesFails ==
    ((Done("calc_min_interval") \/ Done("hpd"))
        /\ arg.shape[1] - FloorCredMass(arg.shape[1]) <= 0) =>
        ret.kind = "raised" /\ ret.exc = "ValueError"

\* hpd on several variables with samples, none of which leaves a window
C9_Witness ==
    /\ Done("hpd")
    /\ ndim(arg) > 1
    /\ arg.shape[1] >= 1
    /\ Prod(Tail(arg.shape)) >= 2
    /\ arg.shape[1] - FloorCredMass(arg.shape[1]) <= 0
    /\ ret.kind = "raised"

\* hpd of the rank-1 array that holds the samples s
Rank1Hpd(s) == hpd(Heap(FromSeq(s)), call.alpha).ret

\* the pair hpd stored at leading index u of its result
PairAt(u) == <<ret.value.at[u \o <<0>>], ret.value.at[u \o <<1>>]>>

\* hpd's result is, at every leading index of the shape lead, the rank-1 result on
\* slice(u), and the call fails where that fails
MatchesRank1(lead, slice(_)) ==
    IF \E u \in Indices(lead) : Rank1Hpd(slice(u)).kind = "raised"
    THEN ret.kind = "raised"
    ELSE /\ ret.kind = "returned"
         /\ ret.value.shape = lead \o <<2>>
         /\ \A u \in Indices(lead) : PairAt(u) = ToSeq(Rank1Hpd(slice(u)).value)

\* C2 as stated: the samples lie along the last axis; shape (d1,...,dk,n) gives shape
\* (d1,...,dk,2), and the pair at (i1,...,ik) is rank-1 hpd of x[i1,...,ik,:]
\* (taken for alpha in (0,1) and axes that are not empty, where rank-1 hpd returns).
C2_SamplesAlongLastAxis ==
    (Done("hpd") /\ ndim(arg) > 1 /\ AlphaInUnitInterval
        /\ \A i \in 1..ndim(arg) : arg.shape[i] >= 1) =>
        LET n == arg.shape[ndim(arg)]
            slice(u) == [s \in 1..n |-> arg.at[u \o <<s - 1>>]]
        IN  MatchesRank1(Front(arg.shape), slice)

\* C2 as amended: the samples lie along the first axis; shape (n,d1,...,dk) gives
\* shape (d1,...,dk,2), and the pair at (i1,...,ik) is rank-1 hpd of x[:,i1,...,ik].
C2_SamplesAlongFirstAxis ==
    (Done("hpd") /\ ndim(arg) > 1) =>
        LET n == arg.shape[1]
            slice(u) == [s \in 1..n |-> arg.at[<<s - 1>> \o u]]
        IN  MatchesRank1(Tail(arg.shape), slice)

\* rank 3, two samples a variable, and two variables whose intervals differ
C2_Witness ==
    /\ Done("hpd")
    /\ ndim(arg) = 3
    /\ arg.shape[1] >= 2
    /\ ret.kind = "returned"
    /\ \E u, v \in Indices(Tail(arg.shape)) : PairAt(u) # PairAt(v)
    /\ \E u \in Indices(Tail(arg.shape)) : PairAt(u)[1] < PairAt(u)[2]

\* C4: after hpd, batchsd or calc_quantiles, returned or failed, the caller's array
\* holds the elements it held before the call, in the same order.
C4_CallerArrayUnchanged ==
    (Done("hpd") \/ Done("batchsd") \/ Done("calc_quantiles")) => arg = arg0

\* batchsd has trimmed and regrouped samples that were not sorted
C4_Witness ==
    /\ Done("batchsd")
    /\ ndim(arg0) = 1
    /\ ~IsSorted(ToSeq(arg0))
    /\ ret.kind = "returned"
    /\ call.batches >= 2
    /\ arg0.shape[1] % call.batches # 0
    /\ loc.batched_traces.shape # arg0.shape

\* floor(n*q/100) for q kept in thousandths
NearestRank(n, q) == (n * q) \div 1000

\* the samples of the variable at leading index u along the first axis, ascending
SortedSamples(u) == SortedSeq([s \in 1..arg.shape[1] |-> arg.at[<<s - 1>> \o u]])

\* the observed sample (rank 1) or sub-array of samples (rank > 1) at position i
AtRank(i) ==
    IF ndim(arg) = 1 THEN SortedSamples(<<>>)[i + 1]
    ELSE [shape |-> Tail(arg.shape),
          at |-> [u \in Indices(Tail(arg.shape)) |-> SortedSamples(u)[i + 1]]]

\* C5 as stated: every q of qlist whose index floor(n*q/100) is below n is mapped, in
\* the mapping returned, to the element (sub-array for rank > 1) at that index of the
\* sorted samples.
C5_EachInBoundsQuantileMapped ==
    Done("calc_quantiles") =>
        \A i \in 1..Len(call.qlist) :
            NearestRank(arg.shape[1], call.qlist[i]) < arg.shape[1] =>
                /\ ret.kind = "returned"
                /\ call.qlist[i] \in DOMAIN ret.value
                /\ ret.value[call.qlist[i]] = AtRank(NearestRank(arg.shape[1], call.qlist[i]))

\* C5 as amended: when the index of every q of qlist is below n, the mapping returned
\* has the q of qlist as keys and maps each to the element (sub-array for rank > 1)
\* at its index of the sorted samples.
C5_AllInBoundsQuantilesMapped ==
    (Done("calc_quantiles")
        /\ \A i \in 1..Len(call.qlist) :
             NearestRank(arg.shape[1], call.qlist[i]) < arg.shape[1]) =>
        /\ ret.kind = "returned"
        /\ DOMAIN ret.value = Range(call.qlist)
        /\ \A q \in Range(call.qlist) : ret.value[q] = AtRank(NearestRank(arg.shape[1], q))

\* the default quantiles of two variables whose samples arrive unsorted
C5_Witness ==
    /\ Done("calc_quantiles")
    /\ call.qlist = DefaultQlist
    /\ ndim(arg) = 2 /\ arg.shape[1] >= 2 /\ arg.shape[2] >= 2
    /\ ret.kind = "returned"
    /\ \E u \in Indices(Tail(arg.shape)) : ~IsSorted([s \in 1..arg.shape[1] |-> arg.at[<<s - 1>> \o u]])
    /\ ret.value[25] # ret.value[975]

\* C6: when some q of qlist has an index floor(len(x)*q/100) >= len(x), calc_quantiles
\* fails with an error the caller can catch; it does not complete normally.
C6_OutOfBoundsQuantileFails ==
    (Done("calc_quantiles")
        /\ \E i \in 1..Len(call.qlist) :
             NearestRank(arg.shape[1], call.qlist[i]) >= arg.shape[1]) =>
        ret.kind = "raised"

\* the Cartesian product {0..d1-1} x ... x {0..dk-1}
Grid(dimensions) ==
    {t \in [1..Len(dimensions) -> 0..(MaxExtent - 1)] :
        \A i \in 1..Len(dimensions) : t[i] < dimensions[i]}

\* C7: for k >= 2 positive extents make_indices returns a list of d1*...*dk pairwise
\* distinct k-tuples whose set is the Cartesian product of the ranges; for k = 1 it
\* returns the plain integers 0..d1-1 in ascending order.
C7_IndicesCoverGrid ==
    Done("make_indices") =>
        LET dimensions == call.dimensions
            indices == ret.value
        IN  IF Len(dimensions) = 1
            THEN indices = [n \in 1..dimensions[1] |-> PyInt(n - 1)]
            ELSE /\ Len(indices) = Prod(dimensions)
                 /\ \A n \in 1..Len(indices) :
                      indices[n].tag = "tuple" /\ Len(indices[n].v) = Len(dimensions)
                 /\ \A m, n \in 1..Len(indices) : m # n => indices[m].v # indices[n].v
                 /\ {indices[n].v : n \in 1..Len(indices)} = Grid(dimensions)

\* three axes of more than one position each, not all of the same extent
C7_Witness ==
    /\ Done("make_indices")
    /\ Len(call.dimensions) = 3
    /\ \A i \in 1..3 : call.dimensions[i] >= 2
    /\ call.dimensions[1] # call.dimensions[3]
    /\ Len(ret.value) = Prod(call.dimensions)

\* sum of the samples of group i (0-based) of size m
GroupSum(trace, m, i) == SumSeq([j \in 1..m |-> trace[i * m + j]])

\* C8: for a rank-1 trace of length n and 2 <= batches <= n, batchsd forms batches
\* groups of size m = floor(n/batches), group i being trace[i*m .. (i+1)*m - 1]; the
\* last n mod batches samples are in no group and the result is std(group means)
\* divided by sqrt(batches).
C8_ContiguousEqualGroups ==
    (Done("batchsd") /\ ndim(arg) = 1
        /\ 2 <= call.batches /\ call.batches <= arg.shape[1]) =>
        LET trace == ToSeq(arg)
            b == call.batches
            m == Len(trace) \div b
            sums == [i \in 1..b |-> GroupSum(trace, m, i - 1)]
            sum == SumSeq(sums)
        IN  /\ ret.kind = "returned"
            /\ loc.batched_traces.shape = <<b, m>>
            /\ \A i \in 0..(b - 1), j \in 0..(m - 1) :
                 loc.batched_traces.at[<<i, j>>] = trace[i * m + j + 1]
            /\ ~ret.value.nan
            /\ ret.value.num * (b * b * b * m * m) = (b * SumSq(sums) - sum * sum) * ret.value.den

\* groups of two or more samples, a remainder left out, and group means that differ
C8_Witness ==
    /\ Done("batchsd") /\ ndim(arg) = 1
    /\ 2 <= call.batches
    /\ arg.shape[1] \div call.batches >= 2
    /\ arg.shape[1] % call.batches # 0
    /\ ret.kind = "returned"
    /\ ret.value.num > 0

\* C10: for a rank-1 trace of length n, batchsd fails whenever batches <= 0 or
\* batches > n; it returns no numeric result then.
C10_InvalidBatchesFails ==
    (Done("batchsd") /\ ndim(arg) = 1
        /\ (call.batches <= 0 \/ call.batches > arg.shape[1])) =>
        ret.kind = "raised"

=============================================================================
